---- MODULE Spec2Model ----
(***************************************************************************)
(* Model of image_downloader.py: the batch coordinator download_images,    *)
(* the multiprocessing pool it dispatches to (Pool.map_async, Python 3),   *)
(* and the single-item pipeline download_single_image with its helpers.    *)
(*                                                                         *)
(* Strings (URLs, lines of the URL file, header values) are sequences of   *)
(* one-character strings, so that strip, split and the substring test are  *)
(* computed as the code computes them.                                     *)
(***************************************************************************)
EXTENDS Integers, Sequences, FiniteSets, TLC

VARIABLES
    urlfile,            \* the URL list file: whether it can be read, and its lines
    dest,               \* dest_dir on disk: "absent", "exists" or "blocked"
    fs,                 \* files under dest_dir: filename -> bytes, or NoFile
    fs0,                \* fs when download_images was called
    processes,          \* download_images(processes=...)
    replace_duplicates, \* download_images(replace_duplicates=...)
    mpc,                \* position of download_images
    ret,                \* value download_images returned ("none" before)
    mcalls,             \* the calls download_images has made, in order
    urls,               \* urls of download_images (line 136)
    taskq,              \* the pool's task queue: chunks of list positions
    left,               \* MapResult._number_left
    wk,                 \* per pool worker: the rest of the chunk it is mapping
    pc,                 \* per list position: state of download_single_image
    image,              \* per list position: the local variable image
    saved,              \* per list position: what save_image returned
    calls,              \* per list position: the helpers called, in order
    first,              \* what the first of two runs of download_images left
    call                \* a call of one helper: the function, its input, its result

vars == <<urlfile, dest, fs, fs0, processes, replace_duplicates, mpc, ret,
          mcalls, urls, taskq, left, wk, pc, image, saved, calls, first, call>>

----------------------------------------------------------------------------
(* Bounds of the model *)

MaxUrls == 3
MaxProcs == 2
MaxChunked == 5

----------------------------------------------------------------------------
(* Strings *)

Whitespace == {" ", "\n", "\t"}

RECURSIVE LStrip(_)
LStrip(s) ==
    IF s # <<>> /\ Head(s) \in Whitespace THEN LStrip(Tail(s)) ELSE s

RECURSIVE RStrip(_)
RStrip(s) ==
    IF s # <<>> /\ s[Len(s)] \in Whitespace
    THEN RStrip(SubSeq(s, 1, Len(s) - 1))
    ELSE s

StripLeft(s) == LStrip(s)

\* str.strip()
Strip(s) == RStrip(LStrip(s))

\* positions of character c in s
Positions(s, c) == {k \in 1..Len(s) : s[k] = c}

Max(S) == CHOOSE m \in S : \A k \in S : k <= m
Min(S) == CHOOSE m \in S : \A k \in S : m <= k

\* s.split(c)[-1]
LastField(s, c) ==
    IF Positions(s, c) = {} THEN s
    ELSE SubSeq(s, Max(Positions(s, c)) + 1, Len(s))

\* s.split(c)[0]
FirstField(s, c) ==
    IF Positions(s, c) = {} THEN s
    ELSE SubSeq(s, 1, Min(Positions(s, c)) - 1)

\* needle in s (Python's substring test on str)
Contains(needle, s) ==
    \E k \in 0..(Len(s) - Len(needle)) :
        SubSeq(s, k + 1, k + Len(needle)) = needle

StartsWith(s, p) == Len(s) >= Len(p) /\ SubSeq(s, 1, Len(p)) = p

----------------------------------------------------------------------------
(* The inputs: lines of the URL file *)

LineBlank == <<"\n">>
LineA == <<" ", "h", "t", "t", "p", ":", "/", "/", "a", ".", "c", "o", "/", "x", "\n">>

Lines == {LineBlank, LineA}

\* A URL list file that cannot be opened
Unreadable == [readable |-> FALSE, lines |-> <<>>]

UrlFile(lines) == [readable |-> TRUE, lines |-> lines]

\* Sequences over S of length at most n
SeqUpTo(S, n) == UNION {[1..k -> S] : k \in 0..n}

----------------------------------------------------------------------------
(* Pure helpers of image_downloader.py *)

get_filename_from_url_first_slash(url) == FirstField(FirstField(url, "/"), "?")

get_filename_from_url(url) == FirstField(LastField(url, "/"), "?")

Scheme == <<"h", "t", "t", "p", ":", "/", "/">>

\* The host of a URL that starts with Scheme: up to the first "/" or "?"
HostOf(url) ==
    LET rest == SubSeq(url, Len(Scheme) + 1, Len(url))
    IN  FirstField(FirstField(rest, "/"), "?")

\* validators.url: the scheme is a known one, the host is a dotted name and
\* the string holds no whitespace
UrlSyntax(url) ==
    /\ StartsWith(url, Scheme)
    /\ \A k \in 1..Len(url) : url[k] \notin Whitespace
    /\ LET h == HostOf(url)
       IN  /\ Len(h) >= 3
           /\ h[1] # "."
           /\ h[Len(h)] # "."
           /\ Positions(h, ".") # {}

is_valid_url(url) == UrlSyntax(url)

----------------------------------------------------------------------------
(* The network: what requests.get can produce *)

TextHtml == <<"t", "e", "x", "t", "/", "h", "t", "m", "l">>
ImageJpg == <<"i", "m", "a", "g", "e", "/", "j", "p", "g">>

\* The bytes the server holds for a URL: named after the host
Body(url) == HostOf(url)[1]

\* A requests.Response: headers is a set of <<name, value>> pairs
Response(status, headers, url) ==
    [kind |-> "Response", status_code |-> status, headers |-> headers,
     content |-> Body(url)]

ContentType(value) == {<<"content-type", value>>}

\* Responses a server can give to GET url
Responses(url) ==
    { Response(404, ContentType(TextHtml), url),
      Response(302, ContentType(TextHtml), url),
      Response(200, ContentType(TextHtml), url),
      Response(200, {}, url),
      Response(200, ContentType(ImageJpg), url) }

\* The local variable image before get_image has returned
NoImage == [kind |-> "unset"]

\* The value False of get_image
False == [kind |-> "False"]

\* get_image: the response, or False after a timeout or a transport error
GetImageResults(url) == Responses(url) \cup {False}

\* bool(x) for what get_image returns: a requests.Response is true iff ok,
\* that is iff its status code is below 400
Truthy(x) == x.kind = "Response" /\ x.status_code < 400

is_valid_response_any(response) == TRUE

is_valid_response_2xx(response) == response.status_code \in 200..299

is_valid_response(response) == response.status_code = 200

\* response.headers.get('content-type') is None for a missing header
HasContentType(response) == \E h \in response.headers : h[1] = "content-type"

HeaderValue(response) ==
    (CHOOSE h \in response.headers : h[1] = "content-type")[2]

\* 'image' not in None raises TypeError
ContentRaises(response) == ~HasContentType(response)

is_valid_content(response) ==
    Contains(<<"i", "m", "a", "g", "e">>, HeaderValue(response))

----------------------------------------------------------------------------
(* The file system under dest_dir *)

NoFile == "NoFile"
Old == "old"
Empty == "empty"

Filenames == {get_filename_from_url(Strip(l)) : l \in Lines} \ {<<>>}

\* os.path.exists(os.path.join(dest_dir, filename)): an empty filename
\* names dest_dir itself
PathExistsNever(files, filename) == FALSE

PathExists(files, filename) ==
    IF filename = <<>> THEN TRUE ELSE files[filename] # NoFile

\* What open(file_path, 'wb') and write can do: "ok", or an IOError at open
\* (file untouched), or an IOError at write (file created or truncated)
WriteResults(filename) ==
    IF filename = <<>> THEN {"open_fails"} ELSE {"ok", "open_fails", "write_fails"}

\* save_image: the files afterwards
save_image_fs_empty(files, response, filename, io) ==
    CASE io = "ok" -> [files EXCEPT ![filename] = Empty]
      [] io = "write_fails" -> [files EXCEPT ![filename] = Empty]
      [] OTHER -> files

save_image_fs(files, response, filename, io) ==
    CASE io = "ok" -> [files EXCEPT ![filename] = response.content]
      [] io = "write_fails" -> [files EXCEPT ![filename] = Empty]
      [] OTHER -> files

\* save_image: the value returned (the bare except swallows every error)
save_image(io) == IF io = "ok" THEN "True" ELSE "False"

----------------------------------------------------------------------------
(* Pool.map_async *)

\* Pool._map_async: chunksize, extra = divmod(len(iterable), len(pool) * 4)
Chunksize(n, p) ==
    IF n = 0 THEN 0
    ELSE (n \div (p * 4)) + (IF n % (p * 4) # 0 THEN 1 ELSE 0)

\* MapResult.__init__: _number_left
NumberLeft(n, size) ==
    IF size <= 0 THEN 0 ELSE (n \div size) + (IF n % size # 0 THEN 1 ELSE 0)

\* Pool._get_tasks: consecutive slices of the list positions
Chunk(n, size, j) ==
    [k \in 1..(IF j * size <= n THEN size ELSE n - (j - 1) * size)
        |-> (j - 1) * size + k]

Chunks(n, p) ==
    LET size == Chunksize(n, p)
    IN  [j \in 1..NumberLeft(n, size) |-> Chunk(n, size, j)]

----------------------------------------------------------------------------
(* Initial states *)

\* No helper is being called on its own
NoCall == [fn |-> "none"]

\* download_images has not been run before
FirstRun == [run |-> 1]

InitWith(lineSet, maxLen, procs) ==
    /\ urlfile \in {UrlFile(ls) : ls \in SeqUpTo(lineSet, maxLen)} \cup {Unreadable}
    /\ dest \in {"absent", "exists", "blocked"}
    /\ fs \in IF dest = "exists"
              THEN [Filenames -> {NoFile, Old}]
              ELSE {[f \in Filenames |-> NoFile]}
    /\ fs0 = fs
    /\ processes \in procs
    /\ replace_duplicates \in BOOLEAN
    /\ mpc = "create_dest_dir"
    /\ ret = "none"
    /\ mcalls = <<>>
    /\ urls = <<>>
    /\ taskq = <<>>
    /\ left = 0
    /\ wk = <<>>
    /\ pc = <<>>
    /\ image = <<>>
    /\ saved = <<>>
    /\ calls = <<>>
    /\ first = FirstRun
    /\ call = NoCall

Init == InitWith(Lines, MaxUrls, 1..MaxProcs)

----------------------------------------------------------------------------
(* download_images *)

\* create_dest_dir: True if the directory exists or os.makedirs made it,
\* False if os.makedirs raised (IOError is OSError in Python 3)
create_dest_dir_always(d) == TRUE

create_dest_dir(d) == d # "blocked"

\* lines 132-133
CreateDestDir ==
    /\ mpc = "create_dest_dir"
    /\ mcalls' = mcalls \o <<"create_dest_dir">>
    /\ IF create_dest_dir(dest)
       THEN /\ dest' = IF dest = "absent" THEN "exists" ELSE dest
            /\ mpc' = "read_lines"
            /\ ret' = ret
       ELSE /\ dest' = dest
            /\ mpc' = "returned"
            /\ ret' = "False"
    /\ UNCHANGED <<first, call, urlfile, fs, fs0, processes, replace_duplicates, urls,
                   taskq, left, wk, pc, image, saved, calls>>

\* lines 135-136: read_lines_from_file returns False for an unreadable file,
\* and iterating over False raises TypeError
ReadLines ==
    /\ mpc = "read_lines"
    /\ mcalls' = mcalls \o <<"read_lines_from_file">>
    /\ IF ~urlfile.readable
       THEN /\ mpc' = "raised"
            /\ urls' = urls
       ELSE /\ mpc' = "map_async"
            /\ urls' = [k \in 1..Len(urlfile.lines) |-> Strip(urlfile.lines[k])]
    /\ UNCHANGED <<first, call, urlfile, dest, fs, fs0, processes, replace_duplicates, ret,
                   taskq, left, wk, pc, image, saved, calls>>

\* Pool(processes=processes): the worker processes of the pool
PoolWorkersExtra(p) == 1..(p + 1)

PoolWorkers(p) == 1..p

\* lines 138-144: the pool and its workers, the chunks put on the task queue
MapAsync ==
    /\ mpc = "map_async"
    /\ mpc' = "wait"
    /\ mcalls' = mcalls \o <<"Pool", "map_async">>
    /\ taskq' = Chunks(Len(urls), processes)
    /\ left' = NumberLeft(Len(urls), Chunksize(Len(urls), processes))
    /\ wk' = [w \in PoolWorkers(processes) |-> <<>>]
    /\ pc' = [i \in 1..Len(urls) |-> "queued"]
    /\ image' = [i \in 1..Len(urls) |-> NoImage]
    /\ saved' = [i \in 1..Len(urls) |-> "none"]
    /\ calls' = [i \in 1..Len(urls) |-> <<>>]
    /\ UNCHANGED <<first, call, urlfile, dest, fs, fs0, processes, replace_duplicates, ret,
                   urls>>

\* MapResult._set: the result is ready once every chunk has reported
Ready == left = 0

\* lines 145-146
Wait ==
    /\ mpc = "wait"
    /\ Ready
    /\ mpc' = "returned"
    /\ ret' = "True"
    /\ mcalls' = mcalls \o <<"wait">>
    /\ UNCHANGED <<first, call, urlfile, dest, fs, fs0, processes, replace_duplicates, urls,
                   taskq, left, wk, pc, image, saved, calls>>

----------------------------------------------------------------------------
(* The pool workers *)

Terminal == {"InvalidUrl", "FetchFailed", "InvalidResponse", "InvalidContent",
             "SkippedExisting", "Saved", "Raised"}

\* worker: task = get()
TakeTask(w) ==
    /\ mpc = "wait"
    /\ wk[w] = <<>>
    /\ taskq # <<>>
    /\ wk' = [wk EXCEPT ![w] = Head(taskq)]
    /\ taskq' = Tail(taskq)
    /\ UNCHANGED <<first, call, urlfile, dest, fs, fs0, processes, replace_duplicates, mpc,
                   ret, mcalls, urls, left, pc, image, saved, calls>>

\* The item of worker w returns outcome: mapstar goes on to the next item of
\* the chunk, and after the last one the worker reports the chunk
Return(w, outcome) ==
    /\ pc' = [pc EXCEPT ![Head(wk[w])] = outcome]
    /\ wk' = [wk EXCEPT ![w] = Tail(wk[w])]
    /\ left' = IF Len(wk[w]) = 1 THEN left - 1 ELSE left

\* The item of worker w raises: the exception leaves mapstar, the rest of the
\* chunk is not mapped and the worker reports the chunk as failed
Raise(w) ==
    /\ pc' = [pc EXCEPT ![Head(wk[w])] = "Raised"]
    /\ wk' = [wk EXCEPT ![w] = <<>>]
    /\ left' = left - 1

\* lines 96-98: is_valid_url, then the GET is sent
StartItem(w) ==
    /\ mpc = "wait"
    /\ wk[w] # <<>>
    /\ LET i == Head(wk[w])
       IN  /\ pc[i] = "queued"
           /\ IF is_valid_url(urls[i])
              THEN /\ pc' = [pc EXCEPT ![i] = "fetching"]
                   /\ calls' = [calls EXCEPT ![i] = @ \o <<"is_valid_url", "get_image">>]
                   /\ UNCHANGED <<wk, left>>
              ELSE /\ Return(w, "InvalidUrl")
                   /\ calls' = [calls EXCEPT ![i] = @ \o <<"is_valid_url">>]
    /\ UNCHANGED <<first, call, urlfile, dest, fs, fs0, processes, replace_duplicates, mpc,
                   ret, mcalls, urls, taskq, image, saved>>

\* lines 98-104: get_image returns, then the checks made on its value: its
\* truth, the status and the content-type
FetchReturn(w) ==
    /\ mpc = "wait"
    /\ wk[w] # <<>>
    /\ LET i == Head(wk[w])
       IN  /\ pc[i] = "fetching"
           /\ \E r \in GetImageResults(urls[i]) :
                /\ image' = [image EXCEPT ![i] = r]
                /\ IF ~Truthy(r)
                   THEN /\ Return(w, "FetchFailed")
                        /\ calls' = calls
                   ELSE IF ~is_valid_response(r)
                   THEN /\ Return(w, "InvalidResponse")
                        /\ calls' = [calls EXCEPT ![i] =
                                       @ \o <<"is_valid_response">>]
                   ELSE IF ContentRaises(r)
                   THEN /\ Raise(w)
                        /\ calls' = [calls EXCEPT ![i] =
                                       @ \o <<"is_valid_response",
                                              "is_valid_content">>]
                   ELSE IF ~is_valid_content(r)
                   THEN /\ Return(w, "InvalidContent")
                        /\ calls' = [calls EXCEPT ![i] =
                                       @ \o <<"is_valid_response",
                                              "is_valid_content">>]
                   ELSE /\ pc' = [pc EXCEPT ![i] = "saving"]
                        /\ calls' = [calls EXCEPT ![i] =
                                       @ \o <<"is_valid_response",
                                              "is_valid_content">>]
                        /\ UNCHANGED <<wk, left>>
    /\ UNCHANGED <<first, call, urlfile, dest, fs, fs0, processes, replace_duplicates, mpc,
                   ret, mcalls, urls, taskq, saved>>

\* lines 105-109: the path and the existence check
CheckExists(w) ==
    /\ mpc = "wait"
    /\ wk[w] # <<>>
    /\ LET i == Head(wk[w])
           filename == get_filename_from_url(urls[i])
       IN  /\ pc[i] = "saving"
           /\ calls' = [calls EXCEPT ![i] = @ \o <<"exists">>]
           /\ IF PathExists(fs, filename) /\ ~replace_duplicates
              THEN Return(w, "SkippedExisting")
              ELSE /\ pc' = [pc EXCEPT ![i] = "writing"]
                   /\ UNCHANGED <<wk, left>>
    /\ UNCHANGED <<first, call, urlfile, dest, fs, fs0, processes, replace_duplicates, mpc,
                   ret, mcalls, urls, taskq, image, saved>>

\* lines 110-112: save_image, whose value is dropped, then return True
SaveImage(w) ==
    /\ mpc = "wait"
    /\ wk[w] # <<>>
    /\ LET i == Head(wk[w])
           filename == get_filename_from_url(urls[i])
       IN  /\ pc[i] = "writing"
           /\ calls' = [calls EXCEPT ![i] = @ \o <<"save_image">>]
           /\ \E io \in WriteResults(filename) :
                /\ fs' = save_image_fs(fs, image[i], filename, io)
                /\ saved' = [saved EXCEPT ![i] = save_image(io)]
           /\ Return(w, "Saved")
    /\ UNCHANGED <<first, call, urlfile, dest, fs0, processes, replace_duplicates, mpc, ret,
                   mcalls, urls, taskq, image>>

Next ==
    \/ CreateDestDir
    \/ ReadLines
    \/ MapAsync
    \/ Wait
    \/ \E w \in DOMAIN wk : TakeTask(w)
    \/ \E w \in DOMAIN wk : StartItem(w)
    \/ \E w \in DOMAIN wk : FetchReturn(w)
    \/ \E w \in DOMAIN wk : CheckExists(w)
    \/ \E w \in DOMAIN wk : SaveImage(w)

Spec == Init /\ [][Next]_vars

\* One worker and lists long enough for map_async to put several list
\* positions into one chunk
InitChunked == InitWith(Lines, MaxChunked, {1})

SpecChunked == InitChunked /\ [][Next]_vars

----------------------------------------------------------------------------
(* Scheduling *)

\* The steps of download_images in the parent process
Parent == CreateDestDir \/ ReadLines \/ MapAsync \/ Wait

\* The steps of pool worker w
Worker(w) ==
    /\ w \in DOMAIN wk
    /\ \/ TakeTask(w)
       \/ StartItem(w)
       \/ FetchReturn(w)
       \/ CheckExists(w)
       \/ SaveImage(w)

\* The operating system runs every process that can take a step; every GET
\* returns or times out and every write returns
Fairness ==
    /\ WF_vars(Parent)
    /\ \A w \in 1..MaxProcs : WF_vars(Worker(w))

FairSpec == Init /\ [][Next]_vars /\ Fairness

FairSpecChunked == InitChunked /\ [][Next]_vars /\ Fairness

----------------------------------------------------------------------------
(* download_images run a second time *)

\* The program is started again with the same arguments, on the directory
\* the first run left
RunAgain ==
    /\ mpc = "returned"
    /\ ret = "True"
    /\ first.run = 1
    /\ first' = [run |-> 2, pc |-> pc, image |-> image, fs |-> fs]
    /\ fs0' = fs
    /\ mpc' = "create_dest_dir"
    /\ ret' = "none"
    /\ mcalls' = <<>>
    /\ urls' = <<>>
    /\ taskq' = <<>>
    /\ left' = 0
    /\ wk' = <<>>
    /\ pc' = <<>>
    /\ image' = <<>>
    /\ saved' = <<>>
    /\ calls' = <<>>
    /\ UNCHANGED <<urlfile, dest, fs, processes, replace_duplicates, call>>

NextTwice ==
    \/ Next
    \/ RunAgain

\* Lists short enough for two runs in a row
MaxTwice == 2

InitTwice == InitWith(Lines, MaxTwice, 1..MaxProcs)

SpecTwice == InitTwice /\ [][NextTwice]_vars

----------------------------------------------------------------------------
(* logging_level_from_verbosity *)

\* The levels of the logging module
CRITICAL == 50
ERROR == 40
WARNING == 30
INFO == 20
DEBUG == 10

\* args.verbose: None without -v, else the number of -v flags
None == [given |-> FALSE, count |-> 0]
Flags(n) == [given |-> TRUE, count |-> n]

logging_levels ==
    (None :> CRITICAL) @@ (Flags(1) :> ERROR) @@ (Flags(2) :> WARNING)
        @@ (Flags(3) :> INFO) @@ (Flags(4) :> DEBUG)

logging_level_from_verbosity_info(verbosity) ==
    IF verbosity \in DOMAIN logging_levels
    THEN logging_levels[verbosity]
    ELSE INFO

logging_level_from_verbosity(verbosity) ==
    IF verbosity \in DOMAIN logging_levels
    THEN logging_levels[verbosity]
    ELSE DEBUG

----------------------------------------------------------------------------
(* The helpers called on their own, as the unit tests and main call them *)

MaxUrlLen == 5
MaxStatus == 599
MaxVerbosity == 105

\* URL strings: letters, path separators and query marks in any order
UrlStrings == SeqUpTo({"a", "/", "?"}, MaxUrlLen)

StatusCodes == 100..MaxStatus

ImageUpper == <<"I", "M", "A", "G", "E", "/", "p", "n", "g">>
SvgImage == <<"x", "/", "i", "m", "a", "g", "e">>
Imag == <<"i", "m", "a", "g">>

\* Header sets of a response: no Content-Type header, or one with a value
HeaderSets ==
    {{}} \cup {ContentType(v) :
                  v \in {TextHtml, ImageJpg, ImageUpper, SvgImage, Imag, <<>>}}

\* argparse's count action gives None or a count of at least one
Verbosities == {None} \cup {Flags(n) : n \in 1..MaxVerbosity}

Pending(fn, arg) == [fn |-> fn, arg |-> arg, done |-> FALSE]

Done(fn, arg, res) == [fn |-> fn, arg |-> arg, done |-> TRUE, res |-> res]

InitPure ==
    /\ urlfile = Unreadable
    /\ dest = "absent"
    /\ fs = [f \in Filenames |-> NoFile]
    /\ fs0 = fs
    /\ processes = 1
    /\ replace_duplicates = FALSE
    /\ mpc = "not_called"
    /\ ret = "none"
    /\ mcalls = <<>>
    /\ urls = <<>>
    /\ taskq = <<>>
    /\ left = 0
    /\ wk = <<>>
    /\ pc = <<>>
    /\ image = <<>>
    /\ saved = <<>>
    /\ calls = <<>>
    /\ first = FirstRun
    /\ \/ \E url \in UrlStrings : call = Pending("get_filename_from_url", url)
       \/ \E status \in StatusCodes :
             call = Pending("is_valid_response", Response(status, {}, Strip(LineA)))
       \/ \E status \in {200, 404}, headers \in HeaderSets :
             call = Pending("is_valid_content",
                            Response(status, headers, Strip(LineA)))
       \/ \E verbosity \in Verbosities :
             call = Pending("logging_level_from_verbosity", verbosity)

NotRunning ==
    UNCHANGED <<urlfile, dest, fs, fs0, processes, replace_duplicates, mpc, ret,
                mcalls, urls, taskq, left, wk, pc, image, saved, calls, first>>

CallGetFilenameFromUrl ==
    /\ call.fn = "get_filename_from_url"
    /\ ~call.done
    /\ call' = Done(call.fn, call.arg, get_filename_from_url(call.arg))
    /\ NotRunning

CallIsValidResponse ==
    /\ call.fn = "is_valid_response"
    /\ ~call.done
    /\ call' = Done(call.fn, call.arg,
                    IF is_valid_response(call.arg) THEN "True" ELSE "False")
    /\ NotRunning

\* 'image' not in content_type raises TypeError when content_type is None
CallIsValidContent ==
    /\ call.fn = "is_valid_content"
    /\ ~call.done
    /\ call' = Done(call.fn, call.arg,
                    IF ContentRaises(call.arg) THEN "TypeError"
                    ELSE IF is_valid_content(call.arg) THEN "True" ELSE "False")
    /\ NotRunning

CallLoggingLevelFromVerbosity ==
    /\ call.fn = "logging_level_from_verbosity"
    /\ ~call.done
    /\ call' = Done(call.fn, call.arg, logging_level_from_verbosity(call.arg))
    /\ NotRunning

\* The program is started again with one more -v flag
OneMoreFlag ==
    /\ call.fn = "logging_level_from_verbosity"
    /\ call.done
    /\ call.arg.count < MaxVerbosity
    /\ LET verbosity == Flags(call.arg.count + 1)
       IN  call' = Done(call.fn, verbosity,
                        logging_level_from_verbosity(verbosity))
    /\ NotRunning

NextPure ==
    \/ CallGetFilenameFromUrl
    \/ CallIsValidResponse
    \/ CallIsValidContent
    \/ CallLoggingLevelFromVerbosity
    \/ OneMoreFlag

SpecPure == InitPure /\ [][NextPure]_vars

----------------------------------------------------------------------------
(* Vocabulary of the properties *)

Items == DOMAIN pc

Range(s) == {s[k] : k \in DOMAIN s}

Count(s, x) == Cardinality({k \in DOMAIN s : s[k] = x})

IsPrefix(s, t) == Len(s) <= Len(t) /\ s = SubSeq(t, 1, Len(s))

\* The URLs a list can hold, those of them that are well formed, and the
\* filename of each
StrippedLines == {Strip(l) : l \in Lines}

ValidUrls == {u \in StrippedLines : UrlSyntax(u)}

FilenameTable == [u \in StrippedLines |-> get_filename_from_url(u)]

FilenameOf(i) == FilenameTable[urls[i]]

\* The content-type values that hold "image"
ImageTypes == {t \in {TextHtml, ImageJpg} : Contains(<<"i", "m", "a", "g", "e">>, t)}

InFlight == {"fetching", "saving", "writing"}

\* The order of the steps of download_single_image
PipelineOrder == <<"is_valid_url", "get_image", "is_valid_response",
                   "is_valid_content", "exists", "save_image">>

\* The GET of item i returned status 200 with an image content-type
Got200Image(i) ==
    /\ image[i].kind = "Response"
    /\ image[i].status_code = 200
    /\ \E h \in image[i].headers :
          h[1] = "content-type" /\ h[2] \in ImageTypes

\* No other list position derives the filename of position i
Unique(i) == \A j \in Items \ {i} : FilenameOf(j) # FilenameOf(i)

\* Item i meets the conditions under which a download is promised
Promised(i) ==
    /\ pc[i] \in Terminal
    /\ urls[i] \in ValidUrls
    /\ Got200Image(i)
    /\ (fs0[FilenameOf(i)] = NoFile \/ replace_duplicates)
    /\ Unique(i)

\* Item i failed at some stage
Failed(i) ==
    \/ pc[i] \in {"InvalidUrl", "FetchFailed", "InvalidResponse",
                  "InvalidContent", "Raised"}
    \/ saved[i] = "False"

\* The pool has nothing left to do
Quiescent ==
    /\ mpc \in {"wait", "returned"}
    /\ taskq = <<>>
    /\ \A w \in DOMAIN wk : wk[w] = <<>>

----------------------------------------------------------------------------
(* C1 *)

----------------------------------------------------------------------------
(* C2 *)

\* C2: once download_images has returned True, every list position has been
\* run through download_single_image exactly once and is in a terminal
\* state (an item that raised is counted as terminal here).
C2_EveryUrlOnce ==
    (mpc = "returned" /\ ret = "True") =>
        \A i \in 1..Len(urls) :
            /\ i \in Items
            /\ pc[i] \in Terminal
            /\ Count(calls[i], "is_valid_url") = 1

----------------------------------------------------------------------------
(* C3 *)

\* C3: failure isolation: when the pool has nothing left to do, every item
\* that has a failed sibling has itself been processed to a terminal state.
C3_FailureIsolation ==
    Quiescent =>
        \A i \in Items : \A j \in Items \ {i} :
            Failed(i) => pc[j] \in Terminal

----------------------------------------------------------------------------
(* C4 *)

\* C4: the helpers are called in the fixed order, and the first failing step
\* ends the item: no GET for an invalid URL, no status or content-type check
\* after a failed fetch, no content-type check after a failed status check,
\* and no write unless every earlier step passed.
C4_FixedOrder ==
    \A i \in Items :
        /\ IsPrefix(calls[i], PipelineOrder)
        /\ urls[i] \notin ValidUrls => "get_image" \notin Range(calls[i])
        /\ image[i].kind = "False" =>
              Range(calls[i]) \subseteq {"is_valid_url", "get_image"}
        /\ (image[i].kind = "Response" /\ image[i].status_code # 200) =>
              Range(calls[i]) \subseteq
                  {"is_valid_url", "get_image", "is_valid_response"}
        /\ "save_image" \in Range(calls[i]) =>
              urls[i] \in ValidUrls /\ Got200Image(i)
        /\ pc[i] \in Terminal \ {"Saved"} => saved[i] = "none"

C4_Witness ==
    \E i \in Items : \E j \in Items :
        /\ calls[i] = PipelineOrder
        /\ pc[i] = "Saved"
        /\ pc[j] = "InvalidResponse"
        /\ calls[j] = <<"is_valid_url", "get_image", "is_valid_response">>

----------------------------------------------------------------------------
(* C5 *)

\* C5: an item whose fetch returned a response with a status other than 200
\* reaches is_valid_response and ends as InvalidResponse.
C5_Non200IsInvalidResponse ==
    \A i \in Items :
        (pc[i] \in Terminal
            /\ image[i].kind = "Response"
            /\ image[i].status_code # 200) =>
            /\ "is_valid_response" \in Range(calls[i])
            /\ pc[i] = "InvalidResponse"

----------------------------------------------------------------------------
(* C6 *)

\* C6: an item whose write failed (save_image returned False) does not end
\* as Saved.
C6_WriteFailureReported ==
    \A i \in Items : saved[i] = "False" => pc[i] # "Saved"

----------------------------------------------------------------------------
(* C7 *)

\* The existence check of item i finds a file and skips the item, leaving
\* the files alone
SkipsExisting(i) ==
    (/\ pc[i] = "saving"
     /\ pc'[i] # "saving"
     /\ fs[FilenameOf(i)] # NoFile
     /\ ~replace_duplicates) =>
        (pc'[i] = "SkippedExisting" /\ fs' = fs)

\* The write of item i is over a file that exists, with replace_duplicates
ReplacingWrite(i) ==
    /\ pc[i] = "writing"
    /\ pc'[i] # "writing"
    /\ fs[FilenameOf(i)] # NoFile
    /\ replace_duplicates

----------------------------------------------------------------------------
(* C8 *)

\* C8: download_single_image never raises.
C8_NeverRaises == \A i \in Items : pc[i] # "Raised"

----------------------------------------------------------------------------
(* C9 *)

\* C9: create_dest_dir is called exactly once and first; when the directory
\* is absent and cannot be made, download_images returns False having read
\* no URL list, made no pool, dispatched nothing and written no file.
C9_DirFirstOrAbort ==
    /\ Count(mcalls, "create_dest_dir") <= 1
    /\ mcalls # <<>> => mcalls[1] = "create_dest_dir"
    /\ mcalls = <<>> => mpc = "create_dest_dir"
    /\ (dest = "blocked" /\ mpc # "create_dest_dir") =>
          /\ mpc = "returned"
          /\ ret = "False"
          /\ mcalls = <<"create_dest_dir">>
          /\ urls = <<>>
          /\ taskq = <<>>
          /\ wk = <<>>
          /\ pc = <<>>
          /\ fs = fs0

C9_Witness == dest = "blocked" /\ mpc = "returned" /\ ret = "False"

----------------------------------------------------------------------------
(* C10 *)

\* C10: with a pool smaller than the list, at most processes items are
\* inside download_single_image at any time.
C10_AtMostCInFlight ==
    processes < Len(urls) =>
        Cardinality({i \in Items : pc[i] \in InFlight}) <= processes

C10_Witness ==
    /\ processes > 1
    /\ processes < Len(urls)
    /\ Cardinality({i \in Items : pc[i] = "fetching"}) = processes

----------------------------------------------------------------------------
\* C11: download_images returns True only after every dispatched list
\* position has reached a terminal outcome: in no state has it returned
\* while a position is still queued, being fetched, checked or saved, also
\* when another position has failed or raised.
C11_ReturnsAfterAllTerminal ==
    (mpc = "returned" /\ ret = "True") =>
        \A i \in DOMAIN pc : pc[i] \notin {"queued"} \cup InFlight

----------------------------------------------------------------------------
\* A call of the helper fn has returned or raised
Called(fn) == call.fn = fn /\ call.done

\* The string value holds "image" in lower case at some position
HoldsImage(value) ==
    \E k \in 1..(Len(value) - 4) :
        SubSeq(value, k, k + 4) = <<"i", "m", "a", "g", "e">>

\* C12: is_valid_content returns True exactly when the response has a
\* content-type header whose raw value holds "image" (case-sensitive), and
\* for a response without the header it returns False rather than raising.
C12_ContentIsImage ==
    Called("is_valid_content") =>
        call.res = IF \E h \in call.arg.headers :
                         h[1] = "content-type" /\ HoldsImage(h[2])
                   THEN "True"
                   ELSE "False"

----------------------------------------------------------------------------
\* C13: is_valid_response returns True exactly when the status code is 200;
\* every other status (other 2xx, 3xx, 4xx, 5xx) gives False.
C13_Only200IsValid ==
    Called("is_valid_response") =>
        /\ call.res \in {"True", "False"}
        /\ call.res = "True" <=> call.arg.status_code = 200

C13_Witness ==
    /\ Called("is_valid_response")
    /\ call.arg.status_code = 204
    /\ call.res = "False"

----------------------------------------------------------------------------
\* C14: get_filename_from_url returns, for every URL string, the part after
\* the last "/" cut at its first "?": the result holds neither "/" nor "?",
\* and it is the empty string when the URL ends in "/".
C14_FilenameIsLastSegment ==
    Called("get_filename_from_url") =>
        LET url == call.arg
            res == call.res
            n   == Len(url)
        IN  /\ \A k \in 1..Len(res) : res[k] \notin {"/", "?"}
            /\ \E k \in 0..n :
                  /\ k = 0 \/ url[k] = "/"
                  /\ \A j \in (k + 1)..n : url[j] # "/"
                  /\ Len(res) <= n - k
                  /\ res = SubSeq(url, k + 1, k + Len(res))
                  /\ Len(res) = n - k \/ url[k + Len(res) + 1] = "?"
            /\ (n > 0 /\ url[n] = "/") => res = <<>>

C14_Witness ==
    /\ Called("get_filename_from_url")
    /\ call.arg = <<"?", "/", "a", "?", "a">>
    /\ call.res = <<"a">>

----------------------------------------------------------------------------
\* C16: logging_level_from_verbosity gives CRITICAL for None, ERROR for 1,
\* WARNING for 2, INFO for 3, DEBUG for 4 and DEBUG for every other value,
\* so the level never becomes less verbose when a flag is added.
C16_LevelTable ==
    Called("logging_level_from_verbosity") =>
        call.res = CASE ~call.arg.given -> CRITICAL
                     [] call.arg.given /\ call.arg.count = 1 -> ERROR
                     [] call.arg.given /\ call.arg.count = 2 -> WARNING
                     [] call.arg.given /\ call.arg.count = 3 -> INFO
                     [] OTHER -> DEBUG

C16_NeverLessVerbose ==
    (Called("logging_level_from_verbosity") /\ call'.done) =>
        call'.res <= call.res

C16_VerbosityLevels == [](C16_LevelTable) /\ [][C16_NeverLessVerbose]_vars

C16_Witness ==
    /\ Called("logging_level_from_verbosity")
    /\ call.arg = Flags(18)
    /\ call.res = DEBUG

----------------------------------------------------------------------------
\* The second run has got, so far, the responses the first run got
SameResponses ==
    \A i \in DOMAIN image : image[i] \in {NoImage, first.image[i]}

\* C15: when download_images is run twice on the same list with
\* replace_duplicates false and the same network responses, every position
\* that ended as Saved in the first run ends as SkippedExisting in the
\* second, the second run writes no file, and the directory holds after the
\* second run what it held after the first.
C15_SecondRunSkips ==
    (first.run = 2 /\ ~replace_duplicates /\ SameResponses) =>
        /\ \A i \in DOMAIN pc :
              (first.pc[i] = "Saved" /\ pc[i] \in Terminal)
                  => pc[i] = "SkippedExisting"
        /\ \A i \in DOMAIN calls : "save_image" \notin Range(calls[i])
        /\ fs = first.fs

----------------------------------------------------------------------------
\* C17: under fair scheduling of the pool workers, with every GET returning
\* or timing out and every write returning, a run of download_images on a
\* list of N URLs eventually returns with all N positions in a terminal
\* outcome, for every pool size and whatever fails on the way.
C17_EventuallyAllTerminal ==
    (urlfile.readable /\ dest # "blocked") =>
        <>(/\ mpc = "returned"
           /\ Len(pc) = Len(urlfile.lines)
           /\ \A i \in DOMAIN pc : pc[i] \in Terminal)

----------------------------------------------------------------------------
\* Blank characters of a line of the URL file
Blank == {" ", "\t", "\n"}

\* u is the line l without the blank characters around it
Trimmed(l, u) ==
    /\ \A k \in DOMAIN u : k \in {1, Len(u)} => u[k] \notin Blank
    /\ \E a \in 0..(Len(l) - Len(u)) :
          /\ u = SubSeq(l, a + 1, a + Len(u))
          /\ \A k \in 1..a : l[k] \in Blank
          /\ \A k \in (a + Len(u) + 1)..Len(l) : l[k] \in Blank

----------------------------------------------------------------------------
\* C19: when the URL file cannot be read, read_lines_from_file returns
\* False without raising, and download_images then ends with a failure
\* value, without raising and without dispatching a position to the pool.
C19_UnreadableFileFails ==
    (~urlfile.readable /\ "read_lines_from_file" \in Range(mcalls)) =>
        /\ mpc = "returned"
        /\ ret = "False"
        /\ pc = <<>>
        /\ "map_async" \notin Range(mcalls)

----------------------------------------------------------------------------
\* List positions i and j are different and derive the same filename
SameFile(i, j) == i # j /\ FilenameOf(i) = FilenameOf(j)

====
